---- MODULE Spec2Model ----
(***************************************************************************)
(* A model of spectrax/_simulation.py: the cross product, the right-hand   *)
(* side ode_system of the Hermite-Fourier Vlasov-Maxwell system, and the   *)
(* driver simulation that packs the state, integrates it and assembles the *)
(* output dictionary.                                                      *)
(*                                                                         *)
(* Arrays are modelled the way jax.numpy stores them: a shape and the      *)
(* row-major (C order) sequence of the elements.  Elements are complex     *)
(* numbers with integer parts, <<re, im>>.  Indices are 0-based as in the  *)
(* source; data sequences are 1-based as in TLA+.                          *)
(***************************************************************************)
EXTENDS Integers, Sequences, FiniteSets, TLC

VARIABLES
    pc,                 \* position of the harness / of simulation
    N,                  \* the static mode counts Nx, Ny, Nz, Nn, Nm, Np, Ns
    k_vec, F_vec,       \* arguments of cross_product
    xprod,              \* results of the cross_product calls
    Ck_Fk,              \* state vector handed to ode_system
    args,               \* args handed to ode_system
    oracle,             \* results of the callees that are not in this file
    dy_dt,              \* what ode_system gave: a derivative or ShapeError
    unpacked,           \* the Ck and Fk that ode_system unpacked
    timesteps,          \* argument of simulation
    input_parameters,   \* argument of simulation (user overrides)
    parameters,         \* initialize_simulation_parameters(...)
    initial_conditions, \* line 134
    time,               \* line 137
    tprev, num_steps,   \* the integrator's clock and step counter
    ys,                 \* sol.ys: one row per output time, filled as passed
    Ck, Fk, dCk,        \* lines 160-165
    output              \* line 169, after diagnostics

vars == <<pc, N, k_vec, F_vec, xprod, Ck_Fk, args, oracle, dy_dt, unpacked,
          timesteps, input_parameters, parameters, initial_conditions, time,
          tprev, num_steps, ys, Ck, Fk, dCk, output>>

crossVars == <<k_vec, F_vec, xprod>>
rhsVars   == <<Ck_Fk, args, oracle, dy_dt, unpacked>>
simVars   == <<timesteps, input_parameters, parameters, initial_conditions,
               time, tprev, num_steps, ys, Ck, Fk, dCk, output>>

\* The value of a variable that a specification does not use.
Unset == [unset |-> TRUE]

(***************************************************************************)
(* Complex numbers                                                         *)
(***************************************************************************)
CZero == <<0, 0>>
\* 1j
CI == <<0, 1>>
\* -1j
CNegI == <<0, -1>>

CAdd(a, b) == <<a[1] + b[1], a[2] + b[2]>>
CSub(a, b) == <<a[1] - b[1], a[2] - b[2]>>
CNeg(a) == <<0 - a[1], 0 - a[2]>>
CMul(a, b) == <<a[1] * b[1] - a[2] * b[2], a[1] * b[2] + a[2] * b[1]>>

\* Integer quotient with the sign of the divisor moved to the dividend; the
\* inputs are drawn so that every quotient taken is exact.
Quot(a, w) == IF w < 0 THEN (0 - a) \div (0 - w) ELSE a \div w
\* A complex number over a real one.
CDivReal(a, w) == <<Quot(a[1], w), Quot(a[2], w)>>

(***************************************************************************)
(* Arrays: [shape |-> <<d1, ..., dn>>, data |-> row-major elements]        *)
(***************************************************************************)
Min(a, b) == IF a < b THEN a ELSE b
Max(a, b) == IF a < b THEN b ELSE a

RECURSIVE Prod(_)
Prod(shape) == IF shape = <<>> THEN 1 ELSE Head(shape) * Prod(Tail(shape))

Arr(shape, data) == [shape |-> shape, data |-> data]
Size(A) == Len(A.data)

\* Row-major offset of the 0-based index tuple idx in an array of this shape.
RECURSIVE Offset(_, _)
Offset(shape, idx) ==
    IF shape = <<>> THEN 0
    ELSE idx[1] * Prod(Tail(shape)) + Offset(Tail(shape), Tail(idx))

InBounds(shape, idx) ==
    /\ Len(idx) = Len(shape)
    /\ \A d \in 1..Len(shape) : 0 <= idx[d] /\ idx[d] < shape[d]

\* A[idx]
At(A, idx) == A.data[Offset(A.shape, idx) + 1]

\* The bound of a slice a[lo:hi] of a length-n axis: negative bounds count from
\* the end, and bounds past either end are clipped.
SliceBound(i, n) == IF i < 0 THEN Max(i + n, 0) ELSE Min(i, n)

\* The raise of jnp.reshape on an element count that does not fit.
ShapeError == [raised |-> "ShapeError"]
IsError(x) == "raised" \in DOMAIN x

\* A reshape that fits whatever it is given to the requested shape, cutting or
\* padding with zeros.
reshape_lenient(A, shape) ==
    Arr(shape, [j \in 1..Prod(shape) |->
                    IF j <= Size(A) THEN A.data[j] ELSE <<0, 0>>])

\* A.reshape(shape): exact, or an error.
reshape(A, shape) ==
    IF Size(A) # Prod(shape) THEN ShapeError ELSE Arr(shape, A.data)

\* A.flatten(), A.reshape(-1)
flatten(A) == Arr(<<Size(A)>>, A.data)

\* A[lo:hi] along the first axis (for a flat vector: its elements lo..hi-1).
SliceRows(A, lo, hi) ==
    LET inner == Prod(Tail(A.shape))
        l == SliceBound(lo, A.shape[1])
        h == SliceBound(hi, A.shape[1])
        n == Max(h - l, 0)
    IN  Arr(<<n>> \o Tail(A.shape),
            IF n = 0 THEN <<>> ELSE SubSeq(A.data, l * inner + 1, h * inner))

\* A[i]: one entry of the first axis, as in  kx, ky, kz = k_vec.
Component(A, i) ==
    LET inner == Prod(Tail(A.shape))
    IN  Arr(Tail(A.shape), SubSeq(A.data, i * inner + 1, (i + 1) * inner))

\* jnp.concatenate([A, B], axis=0)
concatenate(A, B) ==
    Arr(<<A.shape[1] + B.shape[1]>> \o Tail(A.shape), A.data \o B.data)

\* jnp.array([A, B, C]) of three arrays of one shape.
Stack3(A, B, C) == Arr(<<3>> \o A.shape, A.data \o B.data \o C.data)

\* Elementwise arithmetic of arrays of one shape.
EMul(A, B) == Arr(A.shape, [j \in 1..Size(A) |-> CMul(A.data[j], B.data[j])])
ESub(A, B) == Arr(A.shape, [j \in 1..Size(A) |-> CSub(A.data[j], B.data[j])])
ENeg(A) == Arr(A.shape, [j \in 1..Size(A) |-> CNeg(A.data[j])])
\* scalar * A
EScale(c, A) == Arr(A.shape, [j \in 1..Size(A) |-> CMul(c, A.data[j])])
\* A / w for a real scalar w
EDivReal(A, w) == Arr(A.shape, [j \in 1..Size(A) |-> CDivReal(A.data[j], w)])

(***************************************************************************)
(* cross_product, lines 22-41                                              *)
(***************************************************************************)
\* A slip of sign in the first component.
cross_product_plus(kv, Fv) ==
    LET kx == Component(kv, 0)  ky == Component(kv, 1)  kz == Component(kv, 2)
        Fx == Component(Fv, 0)  Fy == Component(Fv, 1)  Fz == Component(Fv, 2)
    IN  Stack3(ESub(EMul(ky, Fz), ENeg(EMul(kz, Fy))),
               ESub(EMul(kz, Fx), EMul(kx, Fz)),
               ESub(EMul(kx, Fy), EMul(ky, Fx)))

cross_product(kv, Fv) ==
    LET kx == Component(kv, 0)  ky == Component(kv, 1)  kz == Component(kv, 2)
        Fx == Component(Fv, 0)  Fy == Component(Fv, 1)  Fz == Component(Fv, 2)
    IN  Stack3(ESub(EMul(ky, Fz), EMul(kz, Fy)),
               ESub(EMul(kz, Fx), EMul(kx, Fz)),
               ESub(EMul(kx, Fy), EMul(ky, Fx)))

(***************************************************************************)
(* The cross product on its own: every pair of vectors of the bounded sets *)
(***************************************************************************)
\* Bound of the real parts of the first vector's components.
MaxRe == 1

ValsK == {<<r, i>> : r \in (0 - MaxRe)..MaxRe, i \in {0, 1}}
ValsF == {<<0, 0>>, <<1, 0>>, <<0, 1>>, <<1, 1>>}
Vec3(S) == {Arr(<<3>>, <<a, b, c>>) : a \in S, b \in S, c \in S}

CrossInit ==
    /\ pc = "cross_start"
    /\ k_vec \in Vec3(ValsK)
    /\ F_vec \in Vec3(ValsF)
    /\ xprod = Unset
    /\ N = Unset
    /\ Ck_Fk = Unset /\ args = Unset /\ oracle = Unset /\ dy_dt = Unset
    /\ unpacked = Unset
    /\ timesteps = Unset /\ input_parameters = Unset /\ parameters = Unset
    /\ initial_conditions = Unset /\ time = Unset /\ tprev = Unset
    /\ num_steps = Unset /\ ys = Unset /\ Ck = Unset /\ Fk = Unset
    /\ dCk = Unset /\ output = Unset

\* The three calls the antisymmetry property speaks of.
CrossEval ==
    /\ pc = "cross_start"
    /\ xprod' = [kF |-> cross_product(k_vec, F_vec),
                 Fk |-> cross_product(F_vec, k_vec),
                 kk |-> cross_product(k_vec, k_vec)]
    /\ pc' = "cross_done"
    /\ UNCHANGED <<N, k_vec, F_vec, rhsVars, simVars>>

CrossNext == CrossEval

SpecCross == CrossInit /\ [][CrossNext]_vars

\* C8: for all 3-vectors a and b, cross_product(a, b) is the componentwise
\* negation of cross_product(b, a), and cross_product(a, a) is (0, 0, 0).
C8_Antisymmetric ==
    pc = "cross_done" =>
        /\ xprod.kF = ENeg(xprod.Fk)
        /\ xprod.kk = Arr(<<3>>, <<CZero, CZero, CZero>>)

\* A pair of distinct non-parallel vectors has been crossed.
C8_Witness ==
    /\ pc = "cross_done"
    /\ k_vec # F_vec
    /\ xprod.kF # Arr(<<3>>, <<CZero, CZero, CZero>>)

(***************************************************************************)
(* The collaborators that live in other files of the package               *)
(* (_initialization.py, _model.py, _diagnostics.py).  Their results are    *)
(* modelled by their interface: the keys and the shapes they produce.  The *)
(* element values are patterns selected by a seed, so that positions can   *)
(* be told apart.                                                          *)
(***************************************************************************)
\* The seeds that stand for the numerical content of a run.
Seeds == {0, 1}

\* The element at flat position j (from 1) of a pattern.
Val(seed, j) == <<(((seed + 2) * j) % 5) - 2, ((j + seed) % 3) - 1>>

Pattern(shape, seed) == Arr(shape, [j \in 1..Prod(shape) |-> Val(seed, j)])

\* A zero-dimensional real array.
Scalar(v) == Arr(<<>>, <<<<v, 0>>>>)
ScalarValue(A) == A.data[1][1]

\* {**a, **b}: a new dictionary; on a key of both, b's value.
merge(a, b) ==
    [k \in (DOMAIN a) \cup (DOMAIN b) |-> IF k \in DOMAIN b THEN b[k] ELSE a[k]]

\* The parameter keys simulation reads (lines 134-153).
ParameterKeys ==
    {"Ck_0", "Fk_0", "t_max", "ode_tolerance", "qs", "nu", "D", "Omega_cs",
     "alpha_s", "u_s", "Lx", "Ly", "Lz", "kx_grid", "ky_grid", "kz_grid",
     "k2_grid", "nabla", "collision_matrix", "sqrt_n_plus", "sqrt_n_minus",
     "sqrt_m_plus", "sqrt_m_minus", "sqrt_p_plus", "sqrt_p_minus"}

\* The electron cyclotron frequency of a run: real, of either sign.
Omega_ce(seed) == IF seed % 2 = 0 THEN 1 ELSE 0 - 2

\* initialize_simulation_parameters: the defaults for these mode counts with
\* the user's overrides merged over them.  t_max is the number of output
\* intervals, so that the output times are integers.
initialize_simulation_parameters(inp, Nx, Ny, Nz, Nn, Nm, Np, Ns, nt, seed) ==
    LET defaults == [k \in ParameterKeys |->
            CASE k = "Ck_0" -> Pattern(<<Ns * Nn * Nm * Np, Ny, Nx, Nz>>, seed)
              [] k = "Fk_0" -> Pattern(<<6, Ny, Nx, Nz>>, seed + 1)
              [] k = "nabla" -> Pattern(<<3, Ny, Nx, Nz>>, seed + 2)
              [] k = "Omega_cs" ->
                    Arr(<<Ns>>, [s \in 1..Ns |-> <<s * Omega_ce(seed), 0>>])
              [] k = "t_max" -> Scalar(Max(1, nt - 1))
              [] OTHER -> Scalar(seed + 7)]
    IN  merge(defaults, inp)

\* Hermite_Fourier_system: an array shaped like Ck.
Hermite_Fourier_system(Ck_, seed) == Pattern(Ck_.shape, seed + 3)

\* plasma_current: a 3-component current over the grid; its parts are even,
\* so that J / Omega_ce is exact.
plasma_current(Ck_, Ny, Nx, Nz, seed) ==
    LET p == Pattern(<<3, Ny, Nx, Nz>>, seed + 4)
    IN  Arr(p.shape, [j \in 1..Size(p) |-> <<2 * p.data[j][1], 2 * p.data[j][2]>>])

(***************************************************************************)
(* ode_system, lines 43-98                                                 *)
(***************************************************************************)
\* args as simulation builds it, lines 140-145: the seven mode counts, then
\* the 21 parameters in the order ode_system unpacks them.
ArgNames ==
    <<"qs", "nu", "D", "Omega_cs", "alpha_s", "u_s", "Lx", "Ly", "Lz",
      "kx_grid", "ky_grid", "kz_grid", "k2_grid", "nabla", "collision_matrix",
      "sqrt_n_plus", "sqrt_n_minus", "sqrt_m_plus", "sqrt_m_minus",
      "sqrt_p_plus", "sqrt_p_minus">>

make_args(Nx, Ny, Nz, Nn, Nm, Np, Ns, par) ==
    <<Scalar(Nx), Scalar(Ny), Scalar(Nz), Scalar(Nn), Scalar(Nm), Scalar(Np),
      Scalar(Ns)>> \o [i \in 1..Len(ArgNames) |-> par[ArgNames[i]]]

\* args[7:] unpacked by name, lines 71-74.
Arg(a, name) ==
    LET rest == SubSeq(a, 8, Len(a))
    IN  rest[CHOOSE i \in 1..Len(ArgNames) : ArgNames[i] = name]

\* The unpacking with the two leading spatial axes taken in the other order.
unpack_Ck_axes(Nx, Ny, Nz, Nn, Nm, Np, Ns, y) ==
    LET total_Ck_size == Nn * Nm * Np * Ns * Nx * Ny * Nz
    IN  reshape(SliceRows(y, 0, total_Ck_size), <<Nn * Nm * Np * Ns, Nx, Ny, Nz>>)

\* Lines 76-77.
unpack_Ck(Nx, Ny, Nz, Nn, Nm, Np, Ns, y) ==
    LET total_Ck_size == Nn * Nm * Np * Ns * Nx * Ny * Nz
    IN  reshape(SliceRows(y, 0, total_Ck_size), <<Nn * Nm * Np * Ns, Ny, Nx, Nz>>)

\* Line 78.
unpack_Fk(Nx, Ny, Nz, Nn, Nm, Np, Ns, y) ==
    LET total_Ck_size == Nn * Nm * Np * Ns * Nx * Ny * Nz
    IN  reshape(SliceRows(y, total_Ck_size, Size(y)), <<6, Ny, Nx, Nz>>)

\* The field derivative with the two halves in the wrong order.
field_derivative_swapped(nabla, Fk_, current, Omega_cs) ==
    LET dBk_dt == EScale(CNegI, cross_product(nabla, SliceRows(Fk_, 0, 3)))
        dEk_dt == ESub(EScale(CI, cross_product(nabla, SliceRows(Fk_, 3, 6))),
                       EDivReal(current, At(Omega_cs, <<0>>)[1]))
    IN  concatenate(dBk_dt, dEk_dt)

\* Lines 91-96: dFk_dt.
field_derivative(nabla, Fk_, current, Omega_cs) ==
    LET dBk_dt == EScale(CNegI, cross_product(nabla, SliceRows(Fk_, 0, 3)))
        dEk_dt == ESub(EScale(CI, cross_product(nabla, SliceRows(Fk_, 3, 6))),
                       EDivReal(current, At(Omega_cs, <<0>>)[1]))
    IN  concatenate(dEk_dt, dBk_dt)

\* ode_system(Nx, ..., Ns, t, Ck_Fk, args).  The inverse transforms C and F
\* (lines 81-82) and the dealias mask (line 85) only feed
\* Hermite_Fourier_system, whose result is the seeded array.  A reshape that
\* raises ends the call.
ode_system(Nx, Ny, Nz, Nn, Nm, Np, Ns, t, y, a, seed) ==
    LET Ck_ == unpack_Ck(Nx, Ny, Nz, Nn, Nm, Np, Ns, y)
        Fk_ == unpack_Fk(Nx, Ny, Nz, Nn, Nm, Np, Ns, y)
    IN  IF IsError(Ck_) THEN Ck_
        ELSE IF IsError(Fk_) THEN Fk_
        ELSE LET dCk_s_dt == Hermite_Fourier_system(Ck_, seed)
                 current == plasma_current(Ck_, Ny, Nx, Nz, seed)
                 dFk_dt == field_derivative(Arg(a, "nabla"), Fk_, current,
                                            Arg(a, "Omega_cs"))
             IN  concatenate(flatten(dCk_s_dt), flatten(dFk_dt))

(***************************************************************************)
(* The mode counts of the model                                            *)
(***************************************************************************)
MaxNx == 5
MaxNn == 2
MaxNs == 3
\* The sizes of the two transverse axes.
TransverseSizes == {1, 2}
\* The mode counts (Nm, Np) of the second and third velocity axes.
VelocityModes == {<<1, 1>>, <<2, 1>>, <<1, 2>>}
\* The longest state vector of the model.
MaxStateLen == 35

Grid(n) == n.Ny * n.Nx * n.Nz
Moments(n) == n.Ns * n.Nn * n.Nm * n.Np
StateLen(n) == Moments(n) * Grid(n) + 6 * Grid(n)

Dims ==
    {n \in [Nx : 1..MaxNx, Ny : TransverseSizes, Nz : TransverseSizes,
            Nn : 1..MaxNn, Nm : {1, 2}, Np : {1, 2}, Ns : 1..MaxNs] :
        /\ <<n.Nm, n.Np>> \in VelocityModes
        /\ StateLen(n) <= MaxStateLen}

(***************************************************************************)
(* ode_system on its own: state vectors of every length up to a little     *)
(* past the right one                                                      *)
(***************************************************************************)
\* How far past the right length the vectors handed to ode_system go.
MaxExtra == 2

RhsInit ==
    /\ pc = "rhs_start"
    /\ N \in Dims
    /\ oracle \in Seeds
    /\ \E len \in 0..(MaxStateLen + MaxExtra) :
          /\ len <= StateLen(N) + MaxExtra
          /\ Ck_Fk = Pattern(<<len>>, oracle)
    /\ parameters = initialize_simulation_parameters(
                        <<>>, N.Nx, N.Ny, N.Nz, N.Nn, N.Nm, N.Np, N.Ns, 1, oracle)
    /\ args = make_args(N.Nx, N.Ny, N.Nz, N.Nn, N.Nm, N.Np, N.Ns, parameters)
    /\ dy_dt = Unset /\ unpacked = Unset
    /\ k_vec = Unset /\ F_vec = Unset /\ xprod = Unset
    /\ timesteps = Unset /\ input_parameters = Unset
    /\ initial_conditions = Unset /\ time = Unset /\ tprev = Unset
    /\ num_steps = Unset /\ ys = Unset /\ Ck = Unset /\ Fk = Unset
    /\ dCk = Unset /\ output = Unset

\* One evaluation of the right-hand side, at any time t.
RhsEval ==
    /\ pc = "rhs_start"
    /\ \E t \in 0..1 :
          dy_dt' = ode_system(N.Nx, N.Ny, N.Nz, N.Nn, N.Nm, N.Np, N.Ns,
                              t, Ck_Fk, args, oracle)
    /\ unpacked' = [Ck |-> unpack_Ck(N.Nx, N.Ny, N.Nz, N.Nn, N.Nm, N.Np, N.Ns, Ck_Fk),
                    Fk |-> unpack_Fk(N.Nx, N.Ny, N.Nz, N.Nn, N.Nm, N.Np, N.Ns, Ck_Fk)]
    /\ pc' = "rhs_done"
    /\ UNCHANGED <<N, Ck_Fk, args, oracle, crossVars, simVars>>

RhsNext == RhsEval

SpecRhs == RhsInit /\ [][RhsNext]_vars

\* The component (c + 1) mod 3 and (c + 2) mod 3 products of a cross product,
\* written out at one grid point: (a x b)_c = a_{c+1} b_{c+2} - a_{c+2} b_{c+1}.
CurlAt(a, b, c, g) ==
    CSub(CMul(a[(c + 1) % 3][g], b[(c + 2) % 3][g]),
         CMul(a[(c + 2) % 3][g], b[(c + 1) % 3][g]))

\* C1: the field derivative returned by ode_system has, at every grid point,
\* dE/dt = i (nabla x B) - J / Omega_cs[0] in its first three components and
\* dB/dt = -i (nabla x E) in its last three, with E = Fk[0:3] and B = Fk[3:6]:
\* the same six-component layout, E then B, as the state's field block.
C1_MaxwellCurl ==
    (pc = "rhs_done" /\ ~IsError(dy_dt)) =>
        LET S == N.Ns * N.Nn * N.Nm * N.Np * N.Ny * N.Nx * N.Nz
            G == N.Ny * N.Nx * N.Nz
            E == [c \in 0..2 |-> [g \in 0..(G - 1) |->
                        Ck_Fk.data[S + c * G + g + 1]]]
            B == [c \in 0..2 |-> [g \in 0..(G - 1) |->
                        Ck_Fk.data[S + (3 + c) * G + g + 1]]]
            nab == [c \in 0..2 |-> [g \in 0..(G - 1) |->
                        parameters["nabla"].data[c * G + g + 1]]]
            J == [c \in 0..2 |-> [g \in 0..(G - 1) |->
                        plasma_current(unpacked.Ck, N.Ny, N.Nx, N.Nz,
                                       oracle).data[c * G + g + 1]]]
            Om == parameters["Omega_cs"].data[1][1]
            dF == [c \in 0..5 |-> [g \in 0..(G - 1) |->
                        dy_dt.data[S + c * G + g + 1]]]
        IN  /\ Size(dy_dt) = S + 6 * G
            /\ \A c \in 0..2 : \A g \in 0..(G - 1) :
                  /\ dF[c][g] = CSub(CMul(CI, CurlAt(nab, B, c, g)),
                                     CDivReal(J[c][g], Om))
                  /\ dF[3 + c][g] = CMul(CNegI, CurlAt(nab, E, c, g))

\* A derivative was returned on a grid of several points; neither half of
\* the field derivative vanishes, and the two halves differ.
C1_Witness ==
    /\ pc = "rhs_done"
    /\ ~IsError(dy_dt)
    /\ N.Nx >= 2
    /\ LET S == Moments(N) * Grid(N)
           G == Grid(N)
       IN  /\ \E j \in 1..(3 * G) : dy_dt.data[S + j] # CZero
           /\ \E j \in (3 * G + 1)..(6 * G) : dy_dt.data[S + j] # CZero
           /\ dy_dt.data[S + 1] # dy_dt.data[S + 3 * G + 1]

\* C9: ode_system raises a shape error on every state vector whose length is
\* not Ns*Nn*Nm*Np*Ny*Nx*Nz + 6*Ny*Nx*Nz, shorter or longer, and returns a
\* derivative (of that same length) only when the length is exactly that sum.
C9_ShapeErrorUnlessExact ==
    pc = "rhs_done" =>
        LET want == N.Ns * N.Nn * N.Nm * N.Np * N.Ny * N.Nx * N.Nz
                        + 6 * N.Ny * N.Nx * N.Nz
        IN  /\ Size(Ck_Fk) # want => dy_dt = ShapeError
            /\ Size(Ck_Fk) = want => (~IsError(dy_dt) /\ Size(dy_dt) = want)

\* A vector one element too long was refused.
C9_Witness ==
    /\ pc = "rhs_done"
    /\ Size(Ck_Fk) = StateLen(N) + 1
    /\ IsError(dy_dt)

(***************************************************************************)
(* simulation, lines 100-171                                               *)
(***************************************************************************)
\* jnp.linspace(start, stop, num), line 137: num points, the end included;
\* a single point is the start.
linspace(start, stop, num) ==
    Arr(<<num>>, [i \in 1..num |->
            IF num = 1 THEN <<start, 0>>
            ELSE <<start + Quot((i - 1) * (stop - start), num - 1), 0>>])

\* Line 134.
pack(Ck_0, Fk_0) == concatenate(flatten(Ck_0), flatten(Fk_0))

\* max_steps of the diffeqsolve call, line 155.
max_steps == 1000000

\* diffeqsolve's throw argument, left at its default in lines 149-155: a
\* run that ends unsuccessfully raises.
throw_off == FALSE

throw == TRUE

\* The integrator is the external library's; the model runs it in batches of
\* internal steps (accepted or rejected), a single one or half the budget,
\* and takes a single step only at the start and after a large batch.
StepBatches == {1, max_steps \div 2}
MaxTimesteps == 2

\* The solver's state at time t of the run with this seed.
Trajectory(y0, seed, t) ==
    IF t = 0 THEN y0 ELSE Pattern(y0.shape, seed + t)

\* A row of sol.ys: saved, or not reached yet.
SavedRow(y) == [saved |-> TRUE, y |-> y]
EmptyRow(len) == [saved |-> FALSE, y |-> Arr(<<len>>, [j \in 1..len |-> CZero])]

\* sol.ys as one array of shape (len(ts), state length).
sol_ys(rows) ==
    Arr(<<Len(rows), IF Len(rows) = 0 THEN 0 ELSE Size(rows[1].y)>>,
        [j \in 1..(Len(rows) * Size(rows[1].y)) |->
            rows[((j - 1) \div Size(rows[1].y)) + 1].y.data[
                ((j - 1) % Size(rows[1].y)) + 1]])

\* A[:, lo:hi] of a two-dimensional array.
SliceColumns(A, lo, hi) ==
    LET w == A.shape[2]
        l == SliceBound(lo, w)
        h == SliceBound(hi, w)
        n == Max(h - l, 0)
    IN  Arr(<<A.shape[1], n>>,
            [j \in 1..(A.shape[1] * n) |->
                A.data[((j - 1) \div n) * w + l + ((j - 1) % n) + 1]])

\* Line 160.
trajectory_Ck(ysA, nts, Nx, Ny, Nz, Nn, Nm, Np, Ns) ==
    reshape(SliceColumns(ysA, 0, 0 - 6 * Nx * Ny * Nz),
            <<nts, Ns * Nn * Nm * Np, Ny, Nx, Nz>>)

\* Line 161.
trajectory_Fk(ysA, nts, Nx, Ny, Nz) ==
    reshape(SliceColumns(ysA, 0 - 6 * Nx * Ny * Nz, ysA.shape[2]),
            <<nts, 6, Ny, Nx, Nz>>)

\* A.at[:, r, y, x, z].set(v): every time, one index of the other axes.  With
\* the default indexing mode an update at an index outside the array is
\* dropped, and the array is returned as it was.
at_set(A, idx, v) ==
    LET inner == Prod(Tail(A.shape))
    IN  IF ~InBounds(Tail(A.shape), idx) THEN A
        ELSE Arr(A.shape, [j \in 1..Size(A) |->
                    IF (j - 1) % inner = Offset(Tail(A.shape), idx)
                    THEN v ELSE A.data[j]])

\* jnp.fft.ifftshift along an axis of n modes (lines 81-82): entry i of the
\* result is entry (i + n // 2) mod n of the array given.
ifftshift_index(i, n) == (i + n \div 2) % n

\* The index of the zero wavenumber on a centered axis of n modes: the entry
\* that ifftshift moves to index 0, where ifftn expects the zero frequency.
zero_index(n) == ifftshift_index(0, n)

\* The row indices that lines 164 and 165 address.
addressed_rows(Nn, Nm, Np) == {0, Nn * Nm * Np}

\* Lines 164-165.
perturbation(Ck_, Nn, Nm, Np) ==
    at_set(at_set(Ck_, <<0, 0, 1, 0>>, CZero), <<Nn * Nm * Np, 0, 1, 0>>, CZero)

\* The keys diagnostics adds to the output, as plot reads them back.
DiagnosticKeys ==
    {"EM_energy", "kinetic_energy", "kinetic_energy_species1",
     "kinetic_energy_species2", "total_energy"}

\* diagnostics(output): adds the energy series to the dictionary it is given.
diagnostics(out, nts) ==
    merge(out, [k \in DiagnosticKeys |-> Arr(<<nts>>, [i \in 1..nts |-> CZero])])

\* Line 169: {**temporary_output, **parameters}.
assemble_output(temporary_output, par) == merge(temporary_output, par)

\* The overrides a caller may hand in: none, a documented parameter, a key of
\* its own, or a key that the output dictionary also uses.
Overrides ==
    {<<>>} \cup
    {[k \in {key} |-> Scalar(11)] : key \in {"nu", "note", "Ck", "time"}}

SimInit ==
    /\ pc = "sim_start"
    /\ N \in Dims
    /\ timesteps \in 1..MaxTimesteps
    /\ oracle \in Seeds
    /\ input_parameters \in Overrides
    /\ parameters = Unset /\ initial_conditions = Unset /\ time = Unset
    /\ args = Unset /\ Ck_Fk = Unset /\ dy_dt = Unset /\ unpacked = Unset
    /\ tprev = 0 /\ num_steps = 0 /\ ys = <<>>
    /\ Ck = Unset /\ Fk = Unset /\ dCk = Unset /\ output = Unset
    /\ k_vec = Unset /\ F_vec = Unset /\ xprod = Unset

\* Lines 131-155 up to the integrator's start: the parameters, the packed
\* initial state, the output times, args; the integrator saves the output
\* times that are not after t0 and evaluates the right-hand side at (t0, y0).
SimBegin ==
    /\ pc = "sim_start"
    /\ LET par == initialize_simulation_parameters(input_parameters,
                      N.Nx, N.Ny, N.Nz, N.Nn, N.Nm, N.Np, N.Ns, timesteps, oracle)
           y0 == pack(par["Ck_0"], par["Fk_0"])
           ts == linspace(0, ScalarValue(par["t_max"]), timesteps)
           a == make_args(N.Nx, N.Ny, N.Nz, N.Nn, N.Nm, N.Np, N.Ns, par)
           f0 == ode_system(N.Nx, N.Ny, N.Nz, N.Nn, N.Nm, N.Np, N.Ns, 0, y0, a, oracle)
       IN  /\ parameters' = par
           /\ initial_conditions' = y0
           /\ time' = ts
           /\ args' = a
           /\ Ck_Fk' = y0
           /\ dy_dt' = f0
           /\ unpacked' = [Ck |-> unpack_Ck(N.Nx, N.Ny, N.Nz, N.Nn, N.Nm, N.Np, N.Ns, y0),
                           Fk |-> unpack_Fk(N.Nx, N.Ny, N.Nz, N.Nn, N.Nm, N.Np, N.Ns, y0)]
           /\ tprev' = 0
           /\ num_steps' = 0
           /\ ys' = [i \in 1..Size(ts) |->
                        IF ts.data[i][1] <= 0 THEN SavedRow(y0) ELSE EmptyRow(Size(y0))]
           /\ pc' = IF IsError(f0) THEN "failed" ELSE "solving"
    /\ UNCHANGED <<N, oracle, timesteps, input_parameters, Ck, Fk, dCk, output,
                   crossVars>>

\* A batch of n internal steps that together advance the solution by h (0:
\* every step of the batch was rejected).  The loop runs while t1 is not
\* reached and the step budget is not used up; each step evaluates ode_system
\* on the current state, and the output times passed are saved.
SolverStep ==
    /\ pc = "solving"
    /\ tprev < ScalarValue(parameters["t_max"])
    /\ num_steps < max_steps
    /\ LET f == ode_system(N.Nx, N.Ny, N.Nz, N.Nn, N.Nm, N.Np, N.Ns,
                           tprev, Ck_Fk, args, oracle)
       IN  /\ dy_dt' = f
           /\ unpacked' =
                 [Ck |-> unpack_Ck(N.Nx, N.Ny, N.Nz, N.Nn, N.Nm, N.Np, N.Ns, Ck_Fk),
                  Fk |-> unpack_Fk(N.Nx, N.Ny, N.Nz, N.Nn, N.Nm, N.Np, N.Ns, Ck_Fk)]
           /\ pc' = IF IsError(f) THEN "failed" ELSE "solving"
    /\ \E n \in StepBatches : \E h \in 0..(ScalarValue(parameters["t_max"]) - tprev) :
          /\ num_steps + n <= max_steps
          /\ n = 1 => num_steps % (max_steps \div 2) = 0
          /\ num_steps' = num_steps + n
          /\ tprev' = tprev + h
          /\ Ck_Fk' = Trajectory(initial_conditions, oracle, tprev + h)
          /\ ys' = [i \in 1..Len(ys) |->
                        IF ~ys[i].saved /\ time.data[i][1] <= tprev + h
                        THEN SavedRow(Trajectory(initial_conditions, oracle,
                                                 time.data[i][1]))
                        ELSE ys[i]]
    /\ UNCHANGED <<N, oracle, timesteps, input_parameters, parameters,
                   initial_conditions, time, args, Ck, Fk, dCk, output, crossVars>>

\* The step budget is used up before t1: the result is max_steps_reached, and
\* with throw the call raises; simulation returns nothing.
SolverFail ==
    /\ pc = "solving"
    /\ tprev < ScalarValue(parameters["t_max"])
    /\ num_steps >= max_steps
    /\ throw
    /\ pc' = "failed"
    /\ UNCHANGED <<N, rhsVars, simVars, crossVars>>

\* The integrator returned; lines 159-171.
SimReturn ==
    /\ pc = "solving"
    /\ \/ tprev >= ScalarValue(parameters["t_max"])
       \/ (num_steps >= max_steps /\ ~throw)
    /\ LET ysA == sol_ys(ys)
           nts == Size(time)
           Ck_ == trajectory_Ck(ysA, nts, N.Nx, N.Ny, N.Nz, N.Nn, N.Nm, N.Np, N.Ns)
           Fk_ == trajectory_Fk(ysA, nts, N.Nx, N.Ny, N.Nz)
       IN  IF IsError(Ck_) \/ IsError(Fk_)
           THEN /\ pc' = "failed"
                /\ UNCHANGED <<Ck, Fk, dCk, output>>
           ELSE LET dCk_ == perturbation(Ck_, N.Nn, N.Nm, N.Np)
                    temporary_output ==
                        [k \in {"Ck", "Fk", "time", "dCk"} |->
                            CASE k = "Ck" -> Ck_
                              [] k = "Fk" -> Fk_
                              [] k = "time" -> time
                              [] k = "dCk" -> dCk_]
                IN  /\ Ck' = Ck_
                    /\ Fk' = Fk_
                    /\ dCk' = dCk_
                    /\ output' = diagnostics(
                            assemble_output(temporary_output, parameters), nts)
                    /\ pc' = "done"
    /\ UNCHANGED <<N, rhsVars, timesteps, input_parameters, parameters,
                   initial_conditions, time, tprev, num_steps, ys, crossVars>>

SimNext == SimBegin \/ SolverStep \/ SolverFail \/ SimReturn

Spec == SimInit /\ [][SimNext]_vars

\* The state length and its two parts, written out.
CkSize == N.Ns * N.Nn * N.Nm * N.Np * N.Ny * N.Nx * N.Nz
FkSize == 6 * N.Ny * N.Nx * N.Nz
Returned == pc = "done"
Odd(n) == n % 2 = 1

\* C2 (as claimed): at every sample time and for every species, dCk is zero
\* at the species' background entry: row of the Hermite triplet (0,0,0), at
\* the index of the zero wavenumber of the centered grid, on every grid with
\* a centre (odd mode counts).
C2_BackgroundZeroed ==
    (Returned /\ Odd(N.Nx) /\ Odd(N.Ny) /\ Odd(N.Nz)) =>
        \A t \in 0..(timesteps - 1) : \A sp \in 0..(N.Ns - 1) :
            At(dCk, <<t, sp * N.Nn * N.Nm * N.Np,
                      zero_index(N.Ny), zero_index(N.Nx), zero_index(N.Nz)>>) = CZero

\* C3 (as claimed): whenever simulation returns, the output's Ck has shape
\* (timesteps, Ns*Nn*Nm*Np, Ny, Nx, Nz), its Fk has shape (timesteps, 6, Ny,
\* Nx, Nz) and its time has length timesteps, for all mode counts and every
\* timesteps >= 1.
C3_OutputShapes ==
    Returned =>
        /\ output["Ck"].shape =
               <<timesteps, N.Ns * N.Nn * N.Nm * N.Np, N.Ny, N.Nx, N.Nz>>
        /\ Size(output["Ck"]) = timesteps * CkSize
        /\ output["Fk"].shape = <<timesteps, 6, N.Ny, N.Nx, N.Nz>>
        /\ Size(output["Fk"]) = timesteps * FkSize
        /\ output["time"].shape = <<timesteps>>
        /\ Size(output["time"]) = timesteps

\* C4: a run whose step budget (max_steps) is used up before t_max ends in
\* the solver's failure and returns no output; a run that returns has a saved
\* state for every one of the timesteps output times, the times increasing,
\* and the trajectory arrays hold exactly those states.
C4_NoTruncation ==
    /\ (pc # "sim_start" /\ num_steps >= max_steps
            /\ tprev < ScalarValue(parameters["t_max"])) =>
          (pc \in {"solving", "failed"} /\ output = Unset)
    /\ pc = "failed" => output = Unset
    /\ Returned =>
          /\ num_steps <= max_steps
          /\ Len(ys) = timesteps
          /\ \A i \in 1..Len(ys) : ys[i].saved
          /\ \A i \in 1..Len(ys) : \A j \in 1..Len(ys) :
                i < j => time.data[i][1] < time.data[j][1]
          /\ \A i \in 1..Len(ys) :
                /\ \A j \in 1..CkSize :
                      Ck.data[(i - 1) * CkSize + j] =
                          Trajectory(initial_conditions, oracle,
                                     time.data[i][1]).data[j]
                /\ \A j \in 1..FkSize :
                      Fk.data[(i - 1) * FkSize + j] =
                          Trajectory(initial_conditions, oracle,
                                     time.data[i][1]).data[CkSize + j]

\* The budget ran out before t_max and the run failed.
C4_Witness ==
    /\ pc = "failed"
    /\ num_steps = max_steps
    /\ tprev < ScalarValue(parameters["t_max"])
    /\ timesteps >= 2

\* C5: the state vector has one layout wherever it is packed or unpacked.
\* The packed initial state is the S distribution entries, then the 6G field
\* entries; ode_system unpacks the first S as Ck and the rest as Fk, so that
\* unpacking the packed pair gives the pair back; the derivative has length
\* S + 6G, distribution derivative first, field derivative last; and the
\* split of the trajectory, counted from the end, falls at S.
C5_OneLayout ==
    pc \in {"solving", "done"} =>
        /\ Size(initial_conditions) = CkSize + FkSize
        /\ \A j \in 1..CkSize :
              initial_conditions.data[j] = parameters["Ck_0"].data[j]
        /\ \A j \in 1..FkSize :
              initial_conditions.data[CkSize + j] = parameters["Fk_0"].data[j]
        /\ num_steps = 0 =>
              /\ unpacked.Ck = parameters["Ck_0"]
              /\ unpacked.Fk = parameters["Fk_0"]
        /\ ~IsError(dy_dt)
        /\ Size(dy_dt) = CkSize + FkSize
        /\ dy_dt.shape = <<CkSize + FkSize>>
        /\ SubSeq(dy_dt.data, 1, CkSize) =
              Hermite_Fourier_system(unpacked.Ck, oracle).data
        /\ SubSeq(dy_dt.data, CkSize + 1, CkSize + FkSize) =
              field_derivative(parameters["nabla"], unpacked.Fk,
                               plasma_current(unpacked.Ck, N.Ny, N.Nx, N.Nz, oracle),
                               parameters["Omega_cs"]).data
        /\ Returned =>
              \A i \in 1..Len(ys) :
                  /\ \A j \in 1..CkSize :
                        Ck.data[(i - 1) * CkSize + j] = ys[i].y.data[j]
                  /\ \A j \in 1..FkSize :
                        Fk.data[(i - 1) * FkSize + j] = ys[i].y.data[CkSize + j]

\* A run on a grid with two unequal axes has packed, been unpacked by the
\* right-hand side during the integration, and been split on return.
C5_Witness ==
    /\ Returned
    /\ N.Nx = 2 /\ N.Ny = 1 /\ N.Nz = 2 /\ N.Ns = 2
    /\ timesteps = 2
    /\ num_steps > 0

\* C7 (as claimed): the returned structure holds the trajectory arrays and
\* the sample times of this run under Ck, Fk, time and dCk, and every
\* parameter's value under the parameter's key, whatever keys the parameters
\* have; the parameter structure is what the initializer gave.
C7_MergeKeepsBoth ==
    Returned =>
        /\ output["Ck"] = Ck
        /\ output["Fk"] = Fk
        /\ output["time"] = time
        /\ output["dCk"] = dCk
        /\ \A k \in DOMAIN parameters : output[k] = parameters[k]
        /\ parameters = initialize_simulation_parameters(input_parameters,
               N.Nx, N.Ny, N.Nz, N.Nn, N.Nm, N.Np, N.Ns, timesteps, oracle)

\* C10 (as claimed): for every species count, dCk differs from Ck in at most
\* one entry per species and sample time, in row s*Nn*Nm*Np; every species
\* has an entry of that row zeroed at every sample time; no row outside
\* 0..Ns*Nn*Nm*Np-1 is addressed; Ck itself is the reshaped trajectory.
C10_OneEntryPerSpecies ==
    Returned =>
        LET M == N.Nn * N.Nm * N.Np
            cells == {c \in [y : 0..(N.Ny - 1), x : 0..(N.Nx - 1), z : 0..(N.Nz - 1)] : TRUE}
            differs(t, r, c) ==
                At(dCk, <<t, r, c.y, c.x, c.z>>) # At(Ck, <<t, r, c.y, c.x, c.z>>)
        IN  /\ \A t \in 0..(timesteps - 1) : \A r \in 0..(N.Ns * M - 1) :
                  /\ r % M # 0 => \A c \in cells : ~differs(t, r, c)
                  /\ r % M = 0 => Cardinality({c \in cells : differs(t, r, c)}) <= 1
            /\ \A sp \in 0..(N.Ns - 1) : \E c \in cells :
                  \A t \in 0..(timesteps - 1) :
                      At(dCk, <<t, sp * M, c.y, c.x, c.z>>) = CZero
            /\ addressed_rows(N.Nn, N.Nm, N.Np) \subseteq 0..(N.Ns * M - 1)
            /\ Ck = trajectory_Ck(sol_ys(ys), timesteps, N.Nx, N.Ny, N.Nz,
                                  N.Nn, N.Nm, N.Np, N.Ns)

====
